---- MODULE Spec2Model ----
(***************************************************************************)
(* Model of the document-store access and credential layer of the         *)
(* Central-Database admin console (src/core/models.py) together with the  *)
(* routes of src/core/api.py that guard or wrap it.                        *)
(*                                                                         *)
(* The document store is a map from existing (database, collection)       *)
(* namespaces to the sequence of documents in natural order.  A database  *)
(* exists exactly when it owns at least one collection.  A document is a  *)
(* function from field names to values.                                    *)
(*                                                                         *)
(* Every request that the code sends to the store is one step.  A core     *)
(* function that sends two requests (init_auth_collection,                 *)
(* create_collection, delete_collection, paginate_documents) is two        *)
(* steps of the calling process, and the steps of other callers may fall   *)
(* between them: the core takes no lock.                                   *)
(***************************************************************************)
EXTENDS Integers, Sequences, FiniteSets, TLC

VARIABLES colls, nextOid, session, flashed, last, pc

vars == <<colls, nextOid, session, flashed, last, pc>>

(***************************************************************************)
(* Bounds of the exploration.                                              *)
(***************************************************************************)
MaxOid == 2
FirstOid == 10
MaxPage == 2
MaxPageSize == 2
NumProcs == 2

(***************************************************************************)
(* Program constants.                                                      *)
(***************************************************************************)
SECURE_DB_NAME == "secure_auth"
SECURE_USERS_COLL == "users"
InternalDbs == {"admin", "local", "config"}
OidHexLen == 24

(***************************************************************************)
(* Strings that the code inspects character by character are tuples of    *)
(* one-character strings.                                                  *)
(***************************************************************************)
HexLower == {"0", "1", "2", "3", "4", "5", "6", "7", "8", "9",
             "a", "b", "c", "d", "e", "f"}
HexUpper == {"A", "B", "C", "D", "E", "F"}
\* The vertical tab, U+000B (the string below holds that one character).
VT == ""
\* The six ASCII white-space characters bytes.fromhex skips.
Whitespace == {" ", "\t", "\n", VT, "\f", "\r"}

ToLower(c) ==
    CASE c = "A" -> "a" [] c = "B" -> "b" [] c = "C" -> "c"
      [] c = "D" -> "d" [] c = "E" -> "e" [] c = "F" -> "f"
      [] OTHER -> c

HexDigit(n) ==
    <<"0", "1", "2", "3", "4", "5", "6", "7", "8", "9",
      "a", "b", "c", "d", "e", "f">>[n + 1]

\* A native identifier is the tag "oid" followed by the lower-case hex digits
\* of its bytes; a string value is the tag "str" followed by its characters.
InvalidId == <<"invalid">>

StrVal(chars) == <<"str">> \o chars

\* bytes.fromhex(s): two hex digits per byte, white space skipped before a
\* byte but not inside one.  The result is the digits of the bytes, or
\* InvalidId where fromhex raises ValueError.
RECURSIVE FromHex(_)
FromHex(s) ==
    IF s = <<>> THEN <<>>
    ELSE IF s[1] \in Whitespace THEN FromHex(Tail(s))
    ELSE IF Len(s) >= 2 /\ s[1] \in HexLower \cup HexUpper
                        /\ s[2] \in HexLower \cup HexUpper
    THEN LET rest == FromHex(Tail(Tail(s)))
         IN  IF rest = InvalidId THEN InvalidId
             ELSE <<ToLower(s[1]), ToLower(s[2])>> \o rest
    ELSE InvalidId

\* bson ObjectId(doc_id) of a string: the string must have 24 characters and
\* be accepted by bytes.fromhex.  A 24-character string with white space
\* between its bytes is accepted and gives an identifier of fewer than 12
\* bytes.
ObjectId(s) ==
    IF Len(s) = OidHexLen /\ FromHex(s) # InvalidId
    THEN <<"oid">> \o FromHex(s)
    ELSE InvalidId

\* str(value) of an identifier or of a string.
Str(v) == Tail(v)

\* The n-th identifier generated by the driver.
NewObjectId(n) ==
    <<"oid">> \o [i \in 1..(OidHexLen - 2) |-> "0"]
              \o <<HexDigit(n \div 16), HexDigit(n % 16)>>

(***************************************************************************)
(* Input domains.                                                          *)
(***************************************************************************)
DbNames == InternalDbs \cup {SECURE_DB_NAME, "test_db"}
DocDbNames == {SECURE_DB_NAME, "test_db"}
CollNames == {SECURE_USERS_COLL, "logs"}
Usernames == {"admin", "bob"}
LoginNames == Usernames \cup {"nouser"}
Passwords == {"admin123", "wrongpass"}
DocSpaces == {<<SECURE_DB_NAME, SECURE_USERS_COLL>>, <<"test_db", "logs">>}
CatalogSpaces == DocSpaces \cup {<<"test_db", "users">>}
Roles == {"admin", "user"}
NoPassword == ""

\* os.getenv("ADMIN_USERNAME", "admin") and os.getenv("ADMIN_PASSWORD",
\* "admin123"): the defaults, or what the environment of the process sets.
AdminUsernames == {"admin", "bob"}
AdminPasswords == {"admin123", "wrongpass"}

ABC == <<"a", "b", "c">>

\* Update and insert payloads: a plain field, and a payload carrying an
\* identifier field.
Payloads ==
    { "a" :> 1,
      ("_id" :> StrVal(ABC)) @@ ("x" :> 2) }

Upper(s) == [i \in 1..Len(s) |-> IF s[i] = "a" THEN "A" ELSE s[i]]

\* Identifier strings a caller may pass: the printed form of every
\* identifier the driver can generate, an upper-case spelling of it, a
\* 24-character string of bytes separated by blanks and vertical tabs in
\* turn, and strings that do not parse.
GeneratedIds == { Str(NewObjectId(n)) : n \in FirstOid..(FirstOid + MaxOid - 1) }
WellFormedIds == GeneratedIds \cup { Upper(Str(NewObjectId(FirstOid))) }
SpacedId ==
    [i \in 1..OidHexLen |-> IF i % 6 = 0 THEN VT ELSE IF i % 3 = 0 THEN " " ELSE "0"]
MalformedIds ==
    { ABC,
      [i \in 1..OidHexLen |-> IF i = OidHexLen THEN "g" ELSE "0"] }
IdInputs == WellFormedIds \cup {SpacedId} \cup MalformedIds

\* A request body or form field holding JSON text: text that json.loads
\* rejects, or text that it parses into data.
NotJson == [valid |-> FALSE, data |-> <<>>]
Json(data) == [valid |-> TRUE, data |-> data]

\* str.strip() on the form values the model feeds.
Strip(s) ==
    CASE s = " " -> ""
      [] s = " logs " -> "logs"
      [] OTHER -> s

FormDbNames == {"", "test_db"}
FormCollNames == {"", " ", " logs "}

(***************************************************************************)
(* Document-store primitives (the pymongo calls the core makes).           *)
(***************************************************************************)
Min(a, b) == IF a < b THEN a ELSE b

\* client[db][coll].find(): the documents in natural order.
Find(db, coll) ==
    IF <<db, coll>> \in DOMAIN colls THEN colls[<<db, coll>>] ELSE <<>>

\* coll.count_documents({})
CountDocuments(db, coll) == Len(Find(db, coll))

\* client.list_database_names()
ListDatabaseNames == { p[1] : p \in DOMAIN colls }

\* db.list_collection_names()
ListCollectionNames(db) == { p[2] : p \in { q \in DOMAIN colls : q[1] = db } }

\* Position of the first document whose field key has value val, 0 if none.
FindOne(docs, key, val) ==
    LET hits == { i \in 1..Len(docs) : key \in DOMAIN docs[i] /\ docs[i][key] = val }
    IN  IF hits = {} THEN 0 ELSE CHOOSE i \in hits : \A j \in hits : i <= j

RemoveAt(docs, i) == SubSeq(docs, 1, i - 1) \o SubSeq(docs, i + 1, Len(docs))

\* The store with collection (db, coll) holding docs (created when missing).
WithDocs(db, coll, docs) ==
    [p \in DOMAIN colls \cup {<<db, coll>>} |->
        IF p = <<db, coll>> THEN docs ELSE colls[p]]

\* db.create_collection(coll): raises CollectionInvalid when the collection
\* exists.
CreateCollection(db, coll) ==
    IF <<db, coll>> \in DOMAIN colls
    THEN [status |-> "raised", store |-> colls]
    ELSE [status |-> "ok", store |-> WithDocs(db, coll, <<>>)]

\* db.drop_collection(coll): no complaint when the collection is missing.
DropCollection(db, coll) ==
    [p \in DOMAIN colls \ {<<db, coll>>} |-> colls[p]]

\* client.drop_database(db)
DropDatabase(db) ==
    [p \in { q \in DOMAIN colls : q[1] # db } |-> colls[p]]

\* coll.insert_one(data): the driver adds a fresh _id when data has none;
\* the store refuses a second document with the same _id.
InsertOne(db, coll, data) ==
    LET doc  == IF "_id" \in DOMAIN data THEN data
                ELSE ("_id" :> NewObjectId(nextOid)) @@ data
        docs == Find(db, coll)
    IN  IF FindOne(docs, "_id", doc["_id"]) # 0
        THEN [status |-> "raised", inserted_id |-> doc["_id"],
              store |-> colls, used |-> "_id" \notin DOMAIN data]
        ELSE [status |-> "ok", inserted_id |-> doc["_id"],
              store |-> WithDocs(db, coll, Append(docs, doc)),
              used |-> "_id" \notin DOMAIN data]

\* coll.update_one({"_id": oid}, {"$set": data}): a partial merge into the
\* first match; the store rejects a $set that would change _id.  An
\* identifier of fewer than 12 bytes equals no stored identifier.
UpdateOne(db, coll, oid, data) ==
    LET docs == Find(db, coll)
        i    == FindOne(docs, "_id", oid)
    IN  IF i = 0
        THEN [status |-> "ok", modified_count |-> 0, store |-> colls]
        ELSE IF "_id" \in DOMAIN data /\ data["_id"] # docs[i]["_id"]
        THEN [status |-> "raised", modified_count |-> 0, store |-> colls]
        ELSE LET new == data @@ docs[i]
             IN  [status |-> "ok",
                  modified_count |-> IF new = docs[i] THEN 0 ELSE 1,
                  store |-> WithDocs(db, coll, [docs EXCEPT ![i] = new])]

\* coll.delete_one({"_id": oid})
DeleteOne(db, coll, oid) ==
    LET docs == Find(db, coll)
        i    == FindOne(docs, "_id", oid)
    IN  IF i = 0
        THEN [deleted_count |-> 0, store |-> colls]
        ELSE [deleted_count |-> 1, store |-> WithDocs(db, coll, RemoveAt(docs, i))]

(***************************************************************************)
(* werkzeug.security                                                       *)
(***************************************************************************)
HashInternal(salt, password) == <<salt, password>>

generate_password_hash(password, salt) ==
    [method |-> "scrypt", salt |-> salt, hashval |-> HashInternal(salt, password)]

check_password_hash(pwhash, password) ==
    HashInternal(pwhash.salt, password) = pwhash.hashval

(***************************************************************************)
(* Initial state: a cluster holding only its infrastructure databases, no  *)
(* credential yet, nobody logged in, no call in progress.                  *)
(***************************************************************************)
\* The callers of the core: server processes and their request threads.
Procs == 1..NumProcs

\* The position of a caller: between calls, or inside the call op(args)
\* after its first request, with the local variables the call still uses.
Idle == [op |-> "idle", args |-> <<>>, existing |-> {}, total |-> 0]
Call(op, args, existing, total) ==
    [op |-> op, args |-> args, existing |-> existing, total |-> total]

SystemDoc == "_id" :> StrVal(<<"v">>)

Flash(message, category) == [message |-> message, category |-> category]
NoFlash == Flash(<<>>, "")

NoCall == [op |-> "none", args |-> <<>>, status |-> "ok", ret |-> <<>>]

Init ==
    /\ colls = [p \in { <<d, "system">> : d \in InternalDbs } |-> <<SystemDoc>>]
    /\ nextOid = FirstOid
    /\ session = {}
    /\ flashed = NoFlash
    /\ last = NoCall
    /\ pc = [p \in Procs |-> Idle]

\* last: the call that returned or raised in the latest step, or Pending
\* when the latest step was the first request of a call still in progress.
Returned(op, args, ret) == [op |-> op, args |-> args, status |-> "ok", ret |-> ret]
Raised(op, args) == [op |-> op, args |-> args, status |-> "raised", ret |-> <<>>]
Pending == [op |-> "pending", args |-> <<>>, status |-> "pending", ret |-> <<>>]

CanGenerate == nextOid < FirstOid + MaxOid

(***************************************************************************)
(* Credential store and access control (models.py).                        *)
(***************************************************************************)
SecureUsers == Find(SECURE_DB_NAME, SECURE_USERS_COLL)

\* The salts of the stored password hashes.
UsedSalts ==
    { SecureUsers[i]["password_hash"].salt :
        i \in { j \in 1..Len(SecureUsers) : "password_hash" \in DOMAIN SecureUsers[j] } }

\* werkzeug's gen_salt draws 16 random characters for every hash, so a new
\* hash never carries the salt of a stored one.  Salts are only ever
\* compared for equality; the model numbers them and draws the first
\* number no stored hash uses.
gen_salt ==
    CHOOSE n \in 1..(Cardinality(UsedSalts) + 1) :
        n \notin UsedSalts /\ \A m \in 1..(n - 1) : m \in UsedSalts

\* init_auth_collection, first request, without the emptiness check.
init_auth_collection_count_unchecked(p) ==
    /\ pc[p].op = "idle"
    /\ pc' = [pc EXCEPT ![p] = Call("init_auth_collection", <<>>, {}, 0)]
    /\ last' = Pending
    /\ UNCHANGED <<colls, nextOid, session, flashed>>

\* init_auth_collection, first request:
\* if secure_users.count_documents({}) == 0
init_auth_collection_count(p) ==
    /\ pc[p].op = "idle"
    /\ IF CountDocuments(SECURE_DB_NAME, SECURE_USERS_COLL) = 0
       THEN /\ pc' = [pc EXCEPT ![p] = Call("init_auth_collection", <<>>, {}, 0)]
            /\ last' = Pending
       ELSE /\ last' = Returned("init_auth_collection", <<>>, <<>>)
            /\ UNCHANGED pc
    /\ UNCHANGED <<colls, nextOid, session, flashed>>

\* init_auth_collection, second request: the environment is read and the
\* admin credential inserted, whatever the store holds by now.
init_auth_collection_insert(p, admin_username, admin_password) ==
    /\ pc[p].op = "init_auth_collection"
    /\ CanGenerate
    /\ colls' = InsertOne(SECURE_DB_NAME, SECURE_USERS_COLL,
                   ("username" :> admin_username)
                     @@ ("password_hash" :> generate_password_hash(admin_password, gen_salt))
                     @@ ("role" :> "admin")).store
    /\ nextOid' = nextOid + 1
    /\ pc' = [pc EXCEPT ![p] = Idle]
    /\ last' = Returned("init_auth_collection", <<>>, <<>>)
    /\ UNCHANGED <<session, flashed>>

\* verify_user without the check for a missing user.
VerifyUser_unchecked(username, password) ==
    LET i == FindOne(SecureUsers, "username", username)
    IN  IF i = 0 \/ "password_hash" \notin DOMAIN SecureUsers[i]
        THEN [status |-> "raised", ret |-> FALSE]
        ELSE [status |-> "ok",
              ret |-> check_password_hash(SecureUsers[i]["password_hash"], password)]

\* The outcome of verify_user(username, password).
VerifyUser(username, password) ==
    LET i == FindOne(SecureUsers, "username", username)
    IN  IF i = 0 THEN [status |-> "ok", ret |-> FALSE]
        ELSE IF "password_hash" \notin DOMAIN SecureUsers[i]
        THEN [status |-> "raised", ret |-> FALSE]
        ELSE [status |-> "ok",
              ret |-> check_password_hash(SecureUsers[i]["password_hash"], password)]

verify_user(username, password) ==
    LET r == VerifyUser(username, password)
    IN  /\ last' = IF r.status = "ok"
                   THEN Returned("verify_user", <<username, password>>, r.ret)
                   ELSE Raised("verify_user", <<username, password>>)
        /\ UNCHANGED <<colls, nextOid, session, flashed, pc>>

\* The outcome of add_credential(username, password, role).
AddCredential(username, password, role) ==
    InsertOne(SECURE_DB_NAME, SECURE_USERS_COLL,
              ("username" :> username)
                @@ ("password_hash" :> generate_password_hash(password, gen_salt))
                @@ ("role" :> role))

add_credential(username, password, role) ==
    /\ CanGenerate
    /\ LET r == AddCredential(username, password, role)
       IN  /\ colls' = r.store
           /\ last' = Returned("add_credential", <<username, password, role>>,
                               Str(r.inserted_id))
    /\ nextOid' = nextOid + 1
    /\ UNCHANGED <<session, flashed, pc>>

\* The outcome of update_credential(user_id, username, password, role);
\* password = NoPassword stands for None or the empty string.
UpdateCredential(user_id, username, password, role) ==
    LET oid == ObjectId(user_id)
    IN  IF oid = InvalidId
        THEN [ret |-> FALSE, store |-> colls]
        ELSE LET update == IF password # NoPassword
                           THEN ("username" :> username) @@ ("role" :> role)
                                  @@ ("password_hash" :>
                                        generate_password_hash(password, gen_salt))
                           ELSE ("username" :> username) @@ ("role" :> role)
                 res == UpdateOne(SECURE_DB_NAME, SECURE_USERS_COLL, oid, update)
             IN  [ret |-> res.modified_count > 0, store |-> res.store]

update_credential(user_id, username, password, role) ==
    LET r == UpdateCredential(user_id, username, password, role)
    IN  /\ colls' = r.store
        /\ last' = Returned("update_credential",
                            <<user_id, username, password, role>>, r.ret)
        /\ UNCHANGED <<nextOid, session, flashed, pc>>

\* The outcome of delete_credential(user_id).
DeleteCredential(user_id) ==
    LET oid == ObjectId(user_id)
    IN  IF oid = InvalidId
        THEN [ret |-> FALSE, store |-> colls]
        ELSE LET res == DeleteOne(SECURE_DB_NAME, SECURE_USERS_COLL, oid)
             IN  [ret |-> res.deleted_count > 0, store |-> res.store]

delete_credential(user_id) ==
    LET r == DeleteCredential(user_id)
    IN  /\ colls' = r.store
        /\ last' = Returned("delete_credential", <<user_id>>, r.ret)
        /\ UNCHANGED <<nextOid, session, flashed, pc>>

(***************************************************************************)
(* Catalog operations (models.py).                                         *)
(***************************************************************************)
get_collections(db_name) == ListCollectionNames(db_name)

\* create_collection, first request, without the check for an existing
\* collection.
create_collection_list_unchecked(p, db_name, coll_name) ==
    /\ pc[p].op = "idle"
    /\ pc' = [pc EXCEPT ![p] = Call("create_collection", <<db_name, coll_name>>,
                                    ListCollectionNames(db_name), 0)]
    /\ last' = Pending
    /\ UNCHANGED <<colls, nextOid, session, flashed>>

\* create_collection, first request: existing = db.list_collection_names()
\* and the return of False when coll_name is in it.
create_collection_list(p, db_name, coll_name) ==
    LET existing == ListCollectionNames(db_name)
    IN  /\ pc[p].op = "idle"
        /\ IF coll_name \in existing
           THEN /\ last' = Returned("create_collection", <<db_name, coll_name>>, FALSE)
                /\ UNCHANGED pc
           ELSE /\ pc' = [pc EXCEPT ![p] =
                            Call("create_collection", <<db_name, coll_name>>, existing, 0)]
                /\ last' = Pending
        /\ UNCHANGED <<colls, nextOid, session, flashed>>

\* create_collection, second request: db.create_collection(coll_name), whose
\* exception the function does not catch.
create_collection_create(p) ==
    /\ pc[p].op = "create_collection"
    /\ LET r == CreateCollection(pc[p].args[1], pc[p].args[2])
       IN  /\ colls' = r.store
           /\ last' = IF r.status = "ok"
                      THEN Returned("create_collection", pc[p].args, TRUE)
                      ELSE Raised("create_collection", pc[p].args)
    /\ pc' = [pc EXCEPT ![p] = Idle]
    /\ UNCHANGED <<nextOid, session, flashed>>

\* delete_collection, first request: existing = db.list_collection_names()
\* and the return of False when coll_name is not in it.
delete_collection_list(p, db_name, coll_name) ==
    LET existing == ListCollectionNames(db_name)
    IN  /\ pc[p].op = "idle"
        /\ IF coll_name \notin existing
           THEN /\ last' = Returned("delete_collection", <<db_name, coll_name>>, FALSE)
                /\ UNCHANGED pc
           ELSE /\ pc' = [pc EXCEPT ![p] =
                            Call("delete_collection", <<db_name, coll_name>>, existing, 0)]
                /\ last' = Pending
        /\ UNCHANGED <<colls, nextOid, session, flashed>>

\* delete_collection, second request: db.drop_collection(coll_name).
delete_collection_drop(p) ==
    /\ pc[p].op = "delete_collection"
    /\ colls' = DropCollection(pc[p].args[1], pc[p].args[2])
    /\ last' = Returned("delete_collection", pc[p].args, TRUE)
    /\ pc' = [pc EXCEPT ![p] = Idle]
    /\ UNCHANGED <<nextOid, session, flashed>>

\* delete_database without the guard for the secure database.
DeleteDatabase_unguarded(db_name) ==
    IF db_name \in {"admin", "local", "config"}
    THEN [ret |-> FALSE, store |-> colls]
    ELSE [ret |-> TRUE, store |-> DropDatabase(db_name)]

\* The outcome of delete_database(db_name).
DeleteDatabase(db_name) ==
    IF db_name \in {"admin", "local", "config"}
    THEN [ret |-> FALSE, store |-> colls]
    ELSE IF db_name = SECURE_DB_NAME
    THEN [ret |-> FALSE, store |-> colls]
    ELSE [ret |-> TRUE, store |-> DropDatabase(db_name)]

delete_database(db_name) ==
    LET r == DeleteDatabase(db_name)
    IN  /\ colls' = r.store
        /\ last' = Returned("delete_database", <<db_name>>, r.ret)
        /\ UNCHANGED <<nextOid, session, flashed, pc>>

(***************************************************************************)
(* Document operations (models.py).                                        *)
(***************************************************************************)
\* d["_id"] = str(d["_id"])
Stringified(d) == [d EXCEPT !["_id"] = Str(@)]

\* The result of paginate_documents without the one-page minimum.
PaginateDocuments_nominimum(db_name, coll_name, page, page_size, total) ==
    LET docs   == Find(db_name, coll_name)
        skip   == (page - 1) * page_size
        cursor == SubSeq(docs, skip + 1, Min(skip + page_size, Len(docs)))
    IN  [documents   |-> [i \in 1..Len(cursor) |-> Stringified(cursor[i])],
         page        |-> page,
         page_size   |-> page_size,
         total       |-> total,
         total_pages |-> (total + page_size - 1) \div page_size]

\* The result of paginate_documents(db_name, coll_name, page, page_size) once
\* the cursor is read, total being the count its first request returned.
PaginateDocuments(db_name, coll_name, page, page_size, total) ==
    LET docs   == Find(db_name, coll_name)
        skip   == (page - 1) * page_size
        cursor == SubSeq(docs, skip + 1, Min(skip + page_size, Len(docs)))
    IN  [documents   |-> [i \in 1..Len(cursor) |-> Stringified(cursor[i])],
         page        |-> page,
         page_size   |-> page_size,
         total       |-> total,
         total_pages |-> IF total > 0
                         THEN (total + page_size - 1) \div page_size
                         ELSE 1]

\* paginate_documents, first request: total = coll.count_documents({}).
paginate_documents_count(p, db_name, coll_name, page, page_size) ==
    /\ pc[p].op = "idle"
    /\ pc' = [pc EXCEPT ![p] =
                 Call("paginate_documents", <<db_name, coll_name, page, page_size>>,
                      {}, CountDocuments(db_name, coll_name))]
    /\ last' = Pending
    /\ UNCHANGED <<colls, nextOid, session, flashed>>

\* paginate_documents, second request: the cursor of find().skip().limit()
\* is read when the loop starts (one batch for the page sizes explored).
paginate_documents_find(p) ==
    /\ pc[p].op = "paginate_documents"
    /\ last' = Returned("paginate_documents", pc[p].args,
                        PaginateDocuments(pc[p].args[1], pc[p].args[2],
                                          pc[p].args[3], pc[p].args[4], pc[p].total))
    /\ pc' = [pc EXCEPT ![p] = Idle]
    /\ UNCHANGED <<colls, nextOid, session, flashed>>

\* The result of get_document: absent is the empty tuple.
Absent == <<>>

GetDocument(db_name, coll_name, doc_id) ==
    LET oid == ObjectId(doc_id)
    IN  IF oid = InvalidId THEN Absent
        ELSE LET docs == Find(db_name, coll_name)
                 i    == FindOne(docs, "_id", oid)
             IN  IF i = 0 THEN Absent ELSE Stringified(docs[i])

get_document(db_name, coll_name, doc_id) ==
    /\ last' = Returned("get_document", <<db_name, coll_name, doc_id>>,
                        GetDocument(db_name, coll_name, doc_id))
    /\ UNCHANGED <<colls, nextOid, session, flashed, pc>>

insert_document(db_name, coll_name, data) ==
    LET result == InsertOne(db_name, coll_name, data)
        args   == <<db_name, coll_name, data>>
    IN  /\ result.used => CanGenerate
        /\ colls' = result.store
        /\ nextOid' = IF result.used THEN nextOid + 1 ELSE nextOid
        /\ last' = IF result.status = "ok"
                   THEN Returned("insert_document", args, Str(result.inserted_id))
                   ELSE Raised("insert_document", args)
        /\ UNCHANGED <<session, flashed, pc>>

\* The outcome of update_document(db_name, coll_name, doc_id, data).
UpdateDocument(db_name, coll_name, doc_id, data) ==
    LET oid == ObjectId(doc_id)
    IN  IF oid = InvalidId
        THEN [status |-> "ok", ret |-> FALSE, store |-> colls]
        ELSE LET result == UpdateOne(db_name, coll_name, oid, data)
             IN  [status |-> result.status,
                  ret    |-> result.modified_count > 0,
                  store  |-> result.store]

update_document(db_name, coll_name, doc_id, data) ==
    LET r    == UpdateDocument(db_name, coll_name, doc_id, data)
        args == <<db_name, coll_name, doc_id, data>>
    IN  /\ colls' = r.store
        /\ last' = IF r.status = "ok"
                   THEN Returned("update_document", args, r.ret)
                   ELSE Raised("update_document", args)
        /\ UNCHANGED <<nextOid, session, flashed, pc>>

\* delete_document without the handler around the identifier parse.
DeleteDocument_unhandled(db_name, coll_name, doc_id) ==
    LET oid == ObjectId(doc_id)
    IN  IF oid = InvalidId
        THEN [status |-> "raised", ret |-> FALSE, store |-> colls]
        ELSE LET result == DeleteOne(db_name, coll_name, oid)
             IN  [status |-> "ok", ret |-> result.deleted_count > 0,
                  store |-> result.store]

\* The outcome of delete_document(db_name, coll_name, doc_id).
DeleteDocument(db_name, coll_name, doc_id) ==
    LET oid == ObjectId(doc_id)
    IN  IF oid = InvalidId
        THEN [status |-> "ok", ret |-> FALSE, store |-> colls]
        ELSE LET result == DeleteOne(db_name, coll_name, oid)
             IN  [status |-> "ok", ret |-> result.deleted_count > 0,
                  store |-> result.store]

delete_document(db_name, coll_name, doc_id) ==
    LET r    == DeleteDocument(db_name, coll_name, doc_id)
        args == <<db_name, coll_name, doc_id>>
    IN  /\ colls' = r.store
        /\ last' = IF r.status = "ok"
                   THEN Returned("delete_document", args, r.ret)
                   ELSE Raised("delete_document", args)
        /\ UNCHANGED <<nextOid, session, flashed, pc>>

(***************************************************************************)
(* Routes (api.py).  A route that is not logged in is answered by          *)
(* login_required with a redirect to the login page, or by                 *)
(* api_auth_required with status 401.                                      *)
(***************************************************************************)
LoggedIn == session # {}

\* jsonify({key: value}), code
Response(code, key, value) == [code |-> code, body |-> <<key, value>>]
Unauthorized == Response(401, "error", "Unauthorized")

login_post(username, password) ==
    LET r == VerifyUser(username, password)
    IN  /\ IF r.status = "raised"
           THEN /\ last' = Raised("login_post", <<username, password>>)
                /\ UNCHANGED <<session, flashed>>
           ELSE IF r.ret
           THEN /\ session' = {username}
                /\ flashed' = Flash(<<"Login successful">>, "success")
                /\ last' = Returned("login_post", <<username, password>>, "dashboard")
           ELSE /\ flashed' = Flash(<<"Invalid credentials">>, "error")
                /\ last' = Returned("login_post", <<username, password>>, "login")
                /\ UNCHANGED session
        /\ UNCHANGED <<colls, nextOid, pc>>

logout ==
    /\ session' = {}
    /\ flashed' = Flash(<<"Logged out">>, "info")
    /\ last' = Returned("logout", <<>>, "login")
    /\ UNCHANGED <<colls, nextOid, pc>>

\* coll_name = request.form.get("coll_name", "").strip(), "default" if empty
DefaultColl(coll_field) ==
    IF Strip(coll_field) = "" THEN "default" ELSE Strip(coll_field)

\* create_database_view up to the first request of create_collection.
create_database_view_list(p, db_field, coll_field) ==
    LET args      == <<db_field, coll_field>>
        db_name   == Strip(db_field)
        coll_name == DefaultColl(coll_field)
        existing  == ListCollectionNames(db_name)
    IN  /\ pc[p].op = "idle"
        /\ IF ~LoggedIn
           THEN /\ last' = Returned("create_database_view", args, "login")
                /\ UNCHANGED <<flashed, pc>>
           ELSE IF db_name = ""
           THEN /\ flashed' = Flash(<<"Database name is required">>, "error")
                /\ last' = Returned("create_database_view", args, "dashboard")
                /\ UNCHANGED pc
           ELSE IF coll_name \in existing
           THEN /\ flashed' = Flash(<<"Collection already exists in that database">>,
                                    "error")
                /\ last' = Returned("create_database_view", args, "dashboard")
                /\ UNCHANGED pc
           ELSE /\ pc' = [pc EXCEPT ![p] = Call("create_database_view", args, existing, 0)]
                /\ last' = Pending
                /\ UNCHANGED flashed
        /\ UNCHANGED <<colls, nextOid, session>>

\* create_database_view from db.create_collection on; the route catches its
\* exception.
create_database_view_create(p) ==
    /\ pc[p].op = "create_database_view"
    /\ LET db_name   == Strip(pc[p].args[1])
           coll_name == DefaultColl(pc[p].args[2])
           r         == CreateCollection(db_name, coll_name)
       IN  /\ colls' = r.store
           /\ flashed' = IF r.status = "ok"
                         THEN Flash(<<"Database '", db_name, "' created with collection '",
                                      coll_name, "'">>, "success")
                         ELSE Flash(<<"Error creating database/collection">>, "error")
    /\ last' = Returned("create_database_view", pc[p].args, "dashboard")
    /\ pc' = [pc EXCEPT ![p] = Idle]
    /\ UNCHANGED <<nextOid, session>>

delete_database_view(db_name) ==
    LET args == <<db_name>>
    IN  IF ~LoggedIn
        THEN /\ last' = Returned("delete_database_view", args, "login")
             /\ UNCHANGED <<colls, nextOid, session, flashed, pc>>
        ELSE IF db_name = SECURE_DB_NAME
        THEN /\ flashed' = Flash(<<"Cannot delete secure_auth database">>, "error")
             /\ last' = Returned("delete_database_view", args, "dashboard")
             /\ UNCHANGED <<colls, nextOid, session, pc>>
        ELSE LET r == DeleteDatabase(db_name)
             IN  /\ colls' = r.store
                 /\ flashed' = IF r.ret
                               THEN Flash(<<"Database '", db_name, "' deleted">>, "success")
                               ELSE Flash(<<"Could not delete this database (maybe protected or not found)">>,
                                          "error")
                 /\ last' = Returned("delete_database_view", args, "dashboard")
                 /\ UNCHANGED <<nextOid, session, pc>>

insert_doc_view(db_name, coll_name, json_data) ==
    LET args   == <<db_name, coll_name, json_data>>
        result == InsertOne(db_name, coll_name, json_data.data)
    IN  IF ~LoggedIn
        THEN /\ last' = Returned("insert_doc_view", args, "login")
             /\ UNCHANGED <<colls, nextOid, session, flashed, pc>>
        ELSE IF ~json_data.valid
        THEN /\ flashed' = Flash(<<"Invalid JSON or insert error">>, "error")
             /\ last' = Returned("insert_doc_view", args, "view_collection_data")
             /\ UNCHANGED <<colls, nextOid, session, pc>>
        ELSE /\ result.used => CanGenerate
             /\ colls' = result.store
             /\ nextOid' = IF result.used THEN nextOid + 1 ELSE nextOid
             /\ flashed' = IF result.status = "ok"
                           THEN Flash(<<"Document inserted">>, "success")
                           ELSE Flash(<<"Invalid JSON or insert error">>, "error")
             /\ last' = Returned("insert_doc_view", args, "view_collection_data")
             /\ UNCHANGED <<session, pc>>

\* create_collection_view up to the first request of create_collection.
create_collection_view_list(p, db_name, coll_field) ==
    LET args      == <<db_name, coll_field>>
        coll_name == Strip(coll_field)
        existing  == ListCollectionNames(db_name)
    IN  /\ pc[p].op = "idle"
        /\ IF ~LoggedIn
           THEN /\ last' = Returned("create_collection_view", args, "login")
                /\ UNCHANGED <<flashed, pc>>
           ELSE IF coll_name = ""
           THEN /\ flashed' = Flash(<<"Collection name is required">>, "error")
                /\ last' = Returned("create_collection_view", args, "view_collections")
                /\ UNCHANGED pc
           ELSE IF coll_name \in existing
           THEN /\ flashed' = Flash(<<"Collection already exists">>, "error")
                /\ last' = Returned("create_collection_view", args, "view_collections")
                /\ UNCHANGED pc
           ELSE /\ pc' = [pc EXCEPT ![p] =
                            Call("create_collection_view", args, existing, 0)]
                /\ last' = Pending
                /\ UNCHANGED flashed
        /\ UNCHANGED <<colls, nextOid, session>>

\* create_collection_view from db.create_collection on; the route catches
\* its exception.
create_collection_view_create(p) ==
    /\ pc[p].op = "create_collection_view"
    /\ LET db_name   == pc[p].args[1]
           coll_name == Strip(pc[p].args[2])
           r         == CreateCollection(db_name, coll_name)
       IN  /\ colls' = r.store
           /\ flashed' = IF r.status = "ok"
                         THEN Flash(<<"Collection '", coll_name, "' created in '",
                                      db_name, "'">>, "success")
                         ELSE Flash(<<"Error creating collection">>, "error")
    /\ last' = Returned("create_collection_view", pc[p].args, "view_collections")
    /\ pc' = [pc EXCEPT ![p] = Idle]
    /\ UNCHANGED <<nextOid, session>>

\* delete_collection_view up to the first request of delete_collection.
delete_collection_view_list(p, db_name, coll_name) ==
    LET args     == <<db_name, coll_name>>
        existing == ListCollectionNames(db_name)
    IN  /\ pc[p].op = "idle"
        /\ IF ~LoggedIn
           THEN /\ last' = Returned("delete_collection_view", args, "login")
                /\ UNCHANGED <<flashed, pc>>
           ELSE IF db_name = SECURE_DB_NAME /\ coll_name = "users"
           THEN /\ flashed' = Flash(<<"Cannot delete 'users' collection from secure_auth">>,
                                    "error")
                /\ last' = Returned("delete_collection_view", args, "view_collections")
                /\ UNCHANGED pc
           ELSE IF coll_name \notin existing
           THEN /\ flashed' = Flash(<<"Could not delete collection (maybe not found)">>,
                                    "error")
                /\ last' = Returned("delete_collection_view", args, "view_collections")
                /\ UNCHANGED pc
           ELSE /\ pc' = [pc EXCEPT ![p] =
                            Call("delete_collection_view", args, existing, 0)]
                /\ last' = Pending
                /\ UNCHANGED flashed
        /\ UNCHANGED <<colls, nextOid, session>>

\* delete_collection_view from db.drop_collection on.
delete_collection_view_drop(p) ==
    /\ pc[p].op = "delete_collection_view"
    /\ colls' = DropCollection(pc[p].args[1], pc[p].args[2])
    /\ flashed' = Flash(<<"Collection '", pc[p].args[2], "' deleted from '",
                          pc[p].args[1], "'">>, "success")
    /\ last' = Returned("delete_collection_view", pc[p].args, "view_collections")
    /\ pc' = [pc EXCEPT ![p] = Idle]
    /\ UNCHANGED <<nextOid, session>>

\* del payload["_id"]
WithoutId(payload) == [k \in DOMAIN payload \ {"_id"} |-> payload[k]]

\* edit_doc_view, GET
edit_doc_view_get(db_name, coll_name, doc_id) ==
    LET args == <<db_name, coll_name, doc_id>>
    IN  IF ~LoggedIn
        THEN /\ last' = Returned("edit_doc_view", args, "login")
             /\ UNCHANGED <<colls, nextOid, session, flashed, pc>>
        ELSE IF GetDocument(db_name, coll_name, doc_id) = Absent
        THEN /\ flashed' = Flash(<<"Document not found">>, "error")
             /\ last' = Returned("edit_doc_view", args, "view_collection_data")
             /\ UNCHANGED <<colls, nextOid, session, pc>>
        ELSE /\ last' = Returned("edit_doc_view", args, "edit_document.html")
             /\ UNCHANGED <<colls, nextOid, session, flashed, pc>>

\* edit_doc_view, POST
edit_doc_view_post(db_name, coll_name, doc_id, json_data) ==
    LET args == <<db_name, coll_name, doc_id, json_data>>
        r    == UpdateDocument(db_name, coll_name, doc_id, WithoutId(json_data.data))
    IN  IF ~LoggedIn
        THEN /\ last' = Returned("edit_doc_view", args, "login")
             /\ UNCHANGED <<colls, nextOid, session, flashed, pc>>
        ELSE IF ~json_data.valid
        THEN /\ flashed' = Flash(<<"Invalid JSON or update error">>, "error")
             /\ last' = Returned("edit_doc_view", args, "view_collection_data")
             /\ UNCHANGED <<colls, nextOid, session, pc>>
        ELSE /\ colls' = r.store
             /\ flashed' = IF r.status = "raised"
                           THEN Flash(<<"Invalid JSON or update error">>, "error")
                           ELSE IF r.ret THEN Flash(<<"Document updated">>, "success")
                           ELSE Flash(<<"Update failed">>, "error")
             /\ last' = Returned("edit_doc_view", args, "view_collection_data")
             /\ UNCHANGED <<nextOid, session, pc>>

delete_doc_view(db_name, coll_name, doc_id) ==
    LET args == <<db_name, coll_name, doc_id>>
        r    == DeleteDocument(db_name, coll_name, doc_id)
    IN  IF ~LoggedIn
        THEN /\ last' = Returned("delete_doc_view", args, "login")
             /\ UNCHANGED <<colls, nextOid, session, flashed, pc>>
        ELSE /\ colls' = r.store
             /\ flashed' = IF r.ret THEN Flash(<<"Document deleted">>, "success")
                           ELSE Flash(<<"Delete failed">>, "error")
             /\ last' = Returned("delete_doc_view", args, "view_collection_data")
             /\ UNCHANGED <<nextOid, session, pc>>

add_cred_view(username, password, role) ==
    LET args == <<username, password, role>>
    IN  IF ~LoggedIn
        THEN /\ last' = Returned("add_cred_view", args, "login")
             /\ UNCHANGED <<colls, nextOid, session, flashed, pc>>
        ELSE IF username = "" \/ password = ""
        THEN /\ flashed' = Flash(<<"Username and password required">>, "error")
             /\ last' = Returned("add_cred_view", args, "credentials_page")
             /\ UNCHANGED <<colls, nextOid, session, pc>>
        ELSE /\ CanGenerate
             /\ colls' = AddCredential(username, password, role).store
             /\ nextOid' = nextOid + 1
             /\ flashed' = Flash(<<"Credential added">>, "success")
             /\ last' = Returned("add_cred_view", args, "credentials_page")
             /\ UNCHANGED <<session, pc>>

\* pwd = password if password.strip() else None
update_cred_view(user_id, username, password, role) ==
    LET args == <<user_id, username, password, role>>
        pwd  == IF Strip(password) # "" THEN password ELSE NoPassword
        r    == UpdateCredential(user_id, username, pwd, role)
    IN  IF ~LoggedIn
        THEN /\ last' = Returned("update_cred_view", args, "login")
             /\ UNCHANGED <<colls, nextOid, session, flashed, pc>>
        ELSE /\ colls' = r.store
             /\ flashed' = IF r.ret THEN Flash(<<"Credential updated">>, "success")
                           ELSE Flash(<<"Update failed">>, "error")
             /\ last' = Returned("update_cred_view", args, "credentials_page")
             /\ UNCHANGED <<nextOid, session, pc>>

delete_cred_view(user_id) ==
    LET args == <<user_id>>
        r    == DeleteCredential(user_id)
    IN  IF ~LoggedIn
        THEN /\ last' = Returned("delete_cred_view", args, "login")
             /\ UNCHANGED <<colls, nextOid, session, flashed, pc>>
        ELSE /\ colls' = r.store
             /\ flashed' = IF r.ret THEN Flash(<<"Credential deleted">>, "success")
                           ELSE Flash(<<"Delete failed">>, "error")
             /\ last' = Returned("delete_cred_view", args, "credentials_page")
             /\ UNCHANGED <<nextOid, session, pc>>

api_insert_document(db_name, coll_name, payload) ==
    LET args   == <<db_name, coll_name, payload>>
        result == InsertOne(db_name, coll_name, payload.data)
    IN  IF ~LoggedIn
        THEN /\ last' = Returned("api_insert_document", args, Unauthorized)
             /\ UNCHANGED <<colls, nextOid, session, flashed, pc>>
        ELSE IF ~payload.valid
        THEN /\ last' = Returned("api_insert_document", args,
                                 Response(400, "error", "Invalid JSON"))
             /\ UNCHANGED <<colls, nextOid, session, flashed, pc>>
        ELSE /\ result.used => CanGenerate
             /\ colls' = result.store
             /\ nextOid' = IF result.used THEN nextOid + 1 ELSE nextOid
             /\ last' = Returned("api_insert_document", args,
                           IF result.status = "ok"
                           THEN Response(201, "inserted_id", Str(result.inserted_id))
                           ELSE Response(400, "error", "Invalid JSON"))
             /\ UNCHANGED <<session, flashed, pc>>

api_update_document(db_name, coll_name, doc_id, payload) ==
    LET args == <<db_name, coll_name, doc_id, payload>>
        r    == UpdateDocument(db_name, coll_name, doc_id, WithoutId(payload.data))
    IN  IF ~LoggedIn
        THEN /\ last' = Returned("api_update_document", args, Unauthorized)
             /\ UNCHANGED <<colls, nextOid, session, flashed, pc>>
        ELSE IF ~payload.valid
        THEN /\ last' = Returned("api_update_document", args,
                                 Response(400, "error", "Invalid JSON"))
             /\ UNCHANGED <<colls, nextOid, session, flashed, pc>>
        ELSE /\ colls' = r.store
             /\ last' = Returned("api_update_document", args,
                           IF r.status = "raised"
                           THEN Response(400, "error", "Invalid JSON")
                           ELSE IF r.ret THEN Response(200, "status", "updated")
                           ELSE Response(400, "error", "Not updated"))
             /\ UNCHANGED <<nextOid, session, flashed, pc>>

api_delete_document(db_name, coll_name, doc_id) ==
    LET args == <<db_name, coll_name, doc_id>>
        r    == DeleteDocument(db_name, coll_name, doc_id)
    IN  IF ~LoggedIn
        THEN /\ last' = Returned("api_delete_document", args, Unauthorized)
             /\ UNCHANGED <<colls, nextOid, session, flashed, pc>>
        ELSE /\ colls' = r.store
             /\ last' = Returned("api_delete_document", args,
                           IF r.ret THEN Response(200, "status", "deleted")
                           ELSE Response(400, "error", "Not deleted"))
             /\ UNCHANGED <<nextOid, session, flashed, pc>>

(***************************************************************************)
(* Specifications.  Every operation may be called at any time with any    *)
(* input of its domain, by any caller that is not inside another call;    *)
(* each specification exercises one component with the operations that    *)
(* feed it or interfere with it.                                           *)
(***************************************************************************)
\* Start-up of several server processes against one store: each runs
\* init_auth_collection when it imports api.py, then serves logins.
NextBoot ==
    \/ \E p \in Procs : init_auth_collection_count(p)
    \/ \E p \in Procs, u \in AdminUsernames, w \in AdminPasswords :
          init_auth_collection_insert(p, u, w)
    \/ \E u \in LoginNames, w \in Passwords : verify_user(u, w)
    \/ \E u \in LoginNames, w \in Passwords : login_post(u, w)
    \/ logout

SpecBoot == Init /\ [][NextBoot]_vars

\* Credential store.
NextCred ==
    \/ \E p \in Procs : init_auth_collection_count(p)
    \/ \E p \in Procs : init_auth_collection_insert(p, "admin", "admin123")
    \/ \E r \in Roles : add_credential("bob", "wrongpass", r)
    \/ \E i \in GeneratedIds, r \in Roles : update_credential(i, "bob", NoPassword, r)
    \/ \E i \in GeneratedIds : delete_credential(i)

SpecCred == Init /\ [][NextCred]_vars

\* Access control.
NextLogin ==
    \/ \E u \in Usernames : add_credential(u, "admin123", "user")
    \/ \E i \in GeneratedIds : update_credential(i, "admin", "wrongpass", "user")
    \/ \E i \in GeneratedIds : delete_credential(i)
    \/ \E u \in LoginNames, w \in Passwords : verify_user(u, w)
    \/ \E u \in LoginNames, w \in Passwords : login_post(u, w)
    \/ logout

SpecLogin == Init /\ [][NextLogin]_vars

\* Catalog operations.
NextCatalog ==
    \/ add_credential("admin", "admin123", "admin")
    \/ \E p \in Procs, n \in CatalogSpaces : create_collection_list(p, n[1], n[2])
    \/ \E p \in Procs : create_collection_create(p)
    \/ \E p \in Procs, n \in CatalogSpaces : delete_collection_list(p, n[1], n[2])
    \/ \E p \in Procs : delete_collection_drop(p)
    \/ \E d \in DbNames : delete_database(d)

SpecCatalog == Init /\ [][NextCatalog]_vars

\* Document operations.
NextDocs ==
    \/ \E n \in DocSpaces, i \in IdInputs : get_document(n[1], n[2], i)
    \/ \E n \in DocSpaces, data \in Payloads : insert_document(n[1], n[2], data)
    \/ \E n \in DocSpaces, i \in IdInputs, data \in Payloads :
          update_document(n[1], n[2], i, data)
    \/ \E n \in DocSpaces, i \in IdInputs : delete_document(n[1], n[2], i)
    \/ \E i \in IdInputs : delete_credential(i)

SpecDocs == Init /\ [][NextDocs]_vars

\* Pagination, with the writes that may fall between its two requests.
\* Reads do not affect one another, so one caller paginates.
NextPages ==
    \/ \E pg \in 1..MaxPage, ps \in 1..MaxPageSize :
          paginate_documents_count(1, "test_db", "logs", pg, ps)
    \/ paginate_documents_find(1)
    \/ insert_document("test_db", "logs", "a" :> 1)
    \/ \E i \in GeneratedIds : delete_document("test_db", "logs", i)

SpecPages == Init /\ [][NextPages]_vars

\* The routes around the core. Each specification starts from the store the
\* import of api.py leaves (the bootstrap credential) and logs in and out.
JsonInputs == {NotJson} \cup {Json(data) : data \in Payloads}

\* Database and collection views.
NextCatalogViews ==
    \/ add_credential("admin", "admin123", "admin")
    \/ login_post("admin", "admin123")
    \/ logout
    \/ \E p \in Procs, d \in FormDbNames, c \in FormCollNames :
          create_database_view_list(p, d, c)
    \/ \E p \in Procs : create_database_view_create(p)
    \/ \E d \in {SECURE_DB_NAME, "test_db", "admin"} : delete_database_view(d)
    \/ \E p \in Procs, c \in FormCollNames : create_collection_view_list(p, "test_db", c)
    \/ \E p \in Procs : create_collection_view_create(p)
    \/ \E p \in Procs, n \in DocSpaces : delete_collection_view_list(p, n[1], n[2])
    \/ \E p \in Procs : delete_collection_view_drop(p)

SpecCatalogViews == Init /\ [][NextCatalogViews]_vars

\* Document views and the JSON API.
NextDocViews ==
    \/ add_credential("admin", "admin123", "admin")
    \/ login_post("admin", "admin123")
    \/ logout
    \/ \E j \in JsonInputs : insert_doc_view("test_db", "logs", j)
    \/ \E i \in IdInputs : edit_doc_view_get("test_db", "logs", i)
    \/ \E i \in IdInputs, j \in JsonInputs : edit_doc_view_post("test_db", "logs", i, j)
    \/ \E i \in IdInputs : delete_doc_view("test_db", "logs", i)
    \/ \E j \in JsonInputs : api_insert_document("test_db", "logs", j)
    \/ \E i \in IdInputs, j \in JsonInputs : api_update_document("test_db", "logs", i, j)
    \/ \E i \in IdInputs : api_delete_document("test_db", "logs", i)

SpecDocViews == Init /\ [][NextDocViews]_vars

\* Credential views.
NextCredViews ==
    \/ add_credential("admin", "admin123", "admin")
    \/ login_post("admin", "admin123")
    \/ logout
    \/ \E u \in {"", "bob"}, w \in {"", "wrongpass"} : add_cred_view(u, w, "user")
    \/ \E i \in IdInputs, w \in {" ", "wrongpass"} : update_cred_view(i, "bob", w, "user")
    \/ \E i \in IdInputs : delete_cred_view(i)

SpecCredViews == Init /\ [][NextCredViews]_vars

Next ==
    \/ NextBoot \/ NextCred \/ NextLogin \/ NextCatalog
    \/ NextDocs \/ NextPages
    \/ NextCatalogViews \/ NextDocViews \/ NextCredViews

Spec == Init /\ [][Next]_vars

(***************************************************************************)
(* Properties.                                                             *)
(***************************************************************************)
ProtectedDbs == {"admin", "local", "config", "secure_auth"}

HasAdmin(docs) ==
    \E i \in 1..Len(docs) : "role" \in DOMAIN docs[i] /\ docs[i]["role"] = "admin"

\* C1: delete_collection(SECURE_DB_NAME, "users") called directly on the core
\* returns false and leaves the secure_auth.users collection and every
\* credential in it in place.
C1_DirectDeleteOfUsersRefused ==
    [][ (last'.op = "delete_collection"
           /\ last'.args = <<SECURE_DB_NAME, "users">>)
        => (last'.ret = FALSE /\ colls' = colls) ]_vars

\* C2: delete_database of admin, local, config or secure_auth returns false
\* without raising and leaves every database, collection and document as it was.
C2_ProtectedDatabasesKept ==
    [][ (last'.op = "delete_database" /\ last'.args[1] \in ProtectedDbs)
        => (last'.status = "ok" /\ last'.ret = FALSE /\ colls' = colls) ]_vars

\* C2 witness: delete_database("secure_auth") was refused while the secure
\* database held a credential and the infrastructure databases held documents.
C2_Witness ==
    /\ last.op = "delete_database"
    /\ last.args = <<SECURE_DB_NAME>>
    /\ last.ret = FALSE
    /\ Len(SecureUsers) > 0
    /\ \A d \in InternalDbs : d \in ListDatabaseNames

\* C4: with no other operation in between, create_collection(db, coll) on a
\* name not yet present returns true and adds exactly that collection, and
\* the same call made next returns false at once and changes nothing, so
\* the database holds the name exactly once.
C4_CreateTwice ==
    [][ \A d \in DocDbNames, c \in CollNames :
          /\ \A p \in Procs :
               (pc[p].op = "create_collection" /\ pc[p].args = <<d, c>>
                  /\ pc'[p].op = "idle"
                  /\ c \notin ListCollectionNames(d)
                  /\ pc[p].existing = ListCollectionNames(d))
               => /\ last' = Returned("create_collection", <<d, c>>, TRUE)
                  /\ DOMAIN colls' = DOMAIN colls \cup {<<d, c>>}
                  /\ Cardinality(DOMAIN colls') = Cardinality(DOMAIN colls) + 1
                  /\ \A n \in DOMAIN colls : colls'[n] = colls[n]
          /\ last = Returned("create_collection", <<d, c>>, TRUE) =>
               /\ \A p \in Procs :
                     ~(pc[p].op = "idle" /\ pc'[p].op = "create_collection"
                         /\ pc'[p].args = <<d, c>>)
               /\ (last'.op = "create_collection" /\ last'.args = <<d, c>> /\ pc' = pc)
                  => /\ last'.status = "ok" /\ last'.ret = FALSE
                     /\ colls' = colls
                     /\ Cardinality({ n \in DOMAIN colls' : n = <<d, c>> }) = 1 ]_vars

\* C4 witness: create_collection("test_db", "logs") has returned false on the
\* collection an earlier call created, which is still empty.
C4_Witness ==
    /\ last = Returned("create_collection", <<"test_db", "logs">>, FALSE)
    /\ "logs" \in ListCollectionNames("test_db")
    /\ Find("test_db", "logs") = <<>>

\* C3: update_document on an existing document behaves, for every payload, as
\* the same update with the identifier field removed from the payload: same
\* outcome, same stored document, stored identifier unchanged.
C3_UpdateStripsIdentifier ==
    [][ \A n \in DocSpaces, i \in IdInputs, data \in Payloads :
          (last'.op = "update_document" /\ last'.args = <<n[1], n[2], i, data>>
             /\ GetDocument(n[1], n[2], i) # Absent)
          => LET r == UpdateDocument(n[1], n[2], i, WithoutId(data))
             IN  /\ last'.status = r.status
                 /\ last'.status = "ok" => last'.ret = r.ret
                 /\ colls' = r.store ]_vars

Max(a, b) == IF a > b THEN a ELSE b

\* The least k with k * d >= n.
Ceil(n, d) == CHOOSE k \in 0..n : k * d >= n /\ \A j \in 0..n : j * d >= n => k <= j

\* C5: when the collection holds as many documents at the read as at the
\* count, paginate_documents reports that total, total_pages =
\* max(1, ceil(total / page_size)) and exactly
\* min(page_size, max(0, total - (page-1)*page_size)) documents.
C5_PaginationShape ==
    [][ \A p \in Procs :
          (pc[p].op = "paginate_documents" /\ pc'[p].op = "idle"
             /\ CountDocuments(pc[p].args[1], pc[p].args[2]) = pc[p].total)
          => LET total     == CountDocuments(pc[p].args[1], pc[p].args[2])
                 page      == pc[p].args[3]
                 page_size == pc[p].args[4]
             IN  /\ last'.op = "paginate_documents" /\ last'.status = "ok"
                 /\ last'.ret.total = total
                 /\ last'.ret.total_pages = Max(1, Ceil(total, page_size))
                 /\ Len(last'.ret.documents)
                      = Min(page_size, Max(0, total - (page - 1) * page_size)) ]_vars

\* C5 witness: page 2 of a two-document collection at page size 1 holds the
\* second document, out of two pages, the count not having moved.
C5_Witness ==
    /\ last.op = "paginate_documents"
    /\ last.args[3] = 2 /\ last.args[4] = 1
    /\ CountDocuments(last.args[1], last.args[2]) = 2
    /\ last.ret.total = 2
    /\ last.ret.total_pages = 2
    /\ Len(last.ret.documents) = 1
    /\ last.ret.documents[1] = Stringified(Find(last.args[1], last.args[2])[2])

\* C6: an init_auth_collection call made on a store holding at least one
\* credential returns at once and changes nothing; a call made on an empty
\* store that is still empty at its insert inserts exactly one credential;
\* and a call made right after another call has returned inserts none.
C6_BootstrapIdempotent ==
    [][ /\ Len(SecureUsers) >= 1 =>
             /\ \A p \in Procs :
                   ~(pc[p].op = "idle" /\ pc'[p].op = "init_auth_collection")
             /\ (last'.op = "init_auth_collection" /\ pc' = pc) => colls' = colls
        /\ \A p \in Procs :
             (pc[p].op = "init_auth_collection" /\ pc'[p].op = "idle"
                /\ Len(SecureUsers) = 0)
             => /\ Len(colls'[<<SECURE_DB_NAME, SECURE_USERS_COLL>>]) = 1
                /\ \A n \in DOMAIN colls \ {<<SECURE_DB_NAME, SECURE_USERS_COLL>>} :
                      n \in DOMAIN colls' /\ colls'[n] = colls[n]
        /\ last.op = "init_auth_collection" =>
             /\ \A p \in Procs :
                   ~(pc[p].op = "idle" /\ pc'[p].op = "init_auth_collection")
             /\ (last'.op = "init_auth_collection" /\ pc' = pc) => colls' = colls ]_vars

\* C6 witness: init_auth_collection has returned on a store holding two
\* credentials, none of them the default one.
C6_Witness ==
    /\ last.op = "init_auth_collection"
    /\ Len(SecureUsers) = 2
    /\ \A i \in 1..Len(SecureUsers) : SecureUsers[i]["username"] = "bob"

\* C7: when init_auth_collection has returned, secure_auth.users holds at least
\* one credential whose role is "admin".
C7_AdminAfterBootstrap ==
    last.op = "init_auth_collection" => HasAdmin(SecureUsers)

\* C8: with an identifier string that does not parse, get_document returns
\* absent, update_document, delete_document and delete_credential return false;
\* none raises and none changes the store.
C8_MalformedIdentifier ==
    [][ /\ (last'.op = "get_document" /\ last'.args[3] \in MalformedIds)
           => (last'.status = "ok" /\ last'.ret = Absent /\ colls' = colls)
        /\ (last'.op \in {"update_document", "delete_document"}
              /\ last'.args[3] \in MalformedIds)
           => (last'.status = "ok" /\ last'.ret = FALSE /\ colls' = colls)
        /\ (last'.op = "delete_credential" /\ last'.args[1] \in MalformedIds)
           => (last'.status = "ok" /\ last'.ret = FALSE /\ colls' = colls) ]_vars

\* C8 witness: delete_document with the unparsable identifier "abc" returned
\* false although the collection holds a document whose _id is the string "abc".
C8_Witness ==
    /\ last.op = "delete_document"
    /\ last.args[3] = ABC
    /\ last.status = "ok" /\ last.ret = FALSE
    /\ FindOne(Find(last.args[1], last.args[2]), "_id", StrVal(ABC)) # 0

\* The steps that delete or update the document identified by string x
\* (under any spelling of the same identifier).
Touches(call, x) ==
    \/ call.op \in {"update_document", "delete_document"}
         /\ ObjectId(call.args[3]) = ObjectId(x)
    \/ call.op \in {"update_credential", "delete_credential"}
         /\ ObjectId(call.args[1]) = ObjectId(x)

\* C9: when insert_document returns identifier X, get_document of X returns
\* the inserted data plus X, and keeps doing so while no step deletes or
\* updates X; delete_document of X returns true when X is stored and false
\* when it is not, and leaves X absent.
C9_DocumentLifecycle ==
    [][ \A n \in DocSpaces :
          /\ \A x \in IdInputs :
               (last'.op = "insert_document" /\ last'.status = "ok"
                  /\ last'.args[1] = n[1] /\ last'.args[2] = n[2]
                  /\ last'.ret = x)
               => GetDocument(n[1], n[2], x)' = ("_id" :> x) @@ last'.args[3]
          /\ \A x \in IdInputs :
               (GetDocument(n[1], n[2], x) # Absent /\ ~Touches(last', x))
               => GetDocument(n[1], n[2], x)' = GetDocument(n[1], n[2], x)
          /\ \A x \in IdInputs :
               (last'.op = "delete_document" /\ last'.args = <<n[1], n[2], x>>
                  /\ \E i \in 1..Len(Find(n[1], n[2])) :
                        Str(Find(n[1], n[2])[i]["_id"]) = x)
               => /\ last'.ret = TRUE
                  /\ GetDocument(n[1], n[2], x)' = Absent
          /\ \A x \in IdInputs :
               (last'.op = "delete_document" /\ last'.args = <<n[1], n[2], x>>
                  /\ GetDocument(n[1], n[2], x) = Absent)
               => /\ last'.ret = FALSE
                  /\ GetDocument(n[1], n[2], x)' = Absent ]_vars

\* The credential verify_user looks at: the first one with that username.
Looked(username) == FindOne(SecureUsers, "username", username)

\* An attempt that must fail: nobody has the username, or the credential
\* looked up stores the hash of another password.
FailingAttempt(username, password) ==
    \/ \A i \in 1..Len(SecureUsers) :
          "username" \in DOMAIN SecureUsers[i] => SecureUsers[i]["username"] # username
    \/ /\ Looked(username) # 0
       /\ "password_hash" \in DOMAIN SecureUsers[Looked(username)]
       /\ SecureUsers[Looked(username)]["password_hash"].hashval
             # HashInternal(SecureUsers[Looked(username)]["password_hash"].salt, password)

\* C10: verify_user returns false for an unknown username and for a wrong
\* password alike, changing nothing; login_post then sets no session and
\* reports the same outcome for both.
C10_UniformLoginFailure ==
    [][ \A u \in LoginNames, w \in Passwords :
          /\ (last'.op = "verify_user" /\ last'.args = <<u, w>> /\ FailingAttempt(u, w))
             => /\ last'.status = "ok" /\ last'.ret = FALSE
                /\ colls' = colls /\ session' = session /\ flashed' = flashed
          /\ (last'.op = "login_post" /\ last'.args = <<u, w>> /\ FailingAttempt(u, w))
             => /\ last'.status = "ok" /\ last'.ret = "login"
                /\ flashed' = Flash(<<"Invalid credentials">>, "error")
                /\ session' = session /\ colls' = colls ]_vars

\* C10 witness: a login with the wrong password for the existing user admin
\* was turned away with nobody logged in.
C10_Witness ==
    /\ last.op = "login_post"
    /\ last.args = <<"admin", "wrongpass">>
    /\ last.ret = "login"
    /\ flashed = Flash(<<"Invalid credentials">>, "error")
    /\ session = {}
    /\ Looked("admin") # 0
    /\ check_password_hash(SecureUsers[Looked("admin")]["password_hash"], "admin123")

\* C11: when several processes run init_auth_collection concurrently against
\* the same empty credential store, exactly one default credential is
\* inserted in total: the store never holds two of them, and holds one once
\* a call has returned.
C11_SingleDefaultCredential ==
    /\ Len(SecureUsers) <= 1
    /\ last.op = "init_auth_collection" => Len(SecureUsers) = 1

====
